---- MODULE Spec2Model ----
(***************************************************************************)
(* Model of the CSV ingestion pipeline of kaya-backend:                    *)
(*   app/services/data_processor.py  (DataProcessor: column resolution,    *)
(*                                    value parsing, parse_csv, ids)       *)
(*   app/api/ingestion.py            (upload_csv, process_and_ingest_task, *)
(*                                    get_ingestion_status, status cache)  *)
(*   app/utils/bigquery_client.py    (BigQueryClient.insert_rows, the Sink)*)
(*                                                                         *)
(* Python str values are TLA+ strings; TLC evaluates Len, \o, SubSeq and   *)
(* Tail on them.  A Python value that may be None is a sequence of length  *)
(* at most one: <<>> is None and <<s>> is the str s.                       *)
(***************************************************************************)
EXTENDS Integers, Sequences, FiniteSets, Bags, TLC

(***************************************************************************)
(* Bounds of the model.                                                    *)
(***************************************************************************)
MaxJobs == 2

MaxClock == 1

(***************************************************************************)
(* str helpers: the Python str methods the code uses.                      *)
(***************************************************************************)
None == <<>>

Some(s) == <<s>>

Char(s, i) == SubSeq(s, i, i)

UpperChars == "ABCDEFGHIJKLMNOPQRSTUVWXYZ"

LowerChars == "abcdefghijklmnopqrstuvwxyz"

Digits == "0123456789"

\* c occurs in the character class written as the string cls
InClass(c, cls) == \E i \in 1..Len(cls) : Char(cls, i) = c

IndexIn(c, cls) == CHOOSE i \in 1..Len(cls) : Char(cls, i) = c

LowerChar(c) == IF InClass(c, UpperChars) THEN Char(LowerChars, IndexIn(c, UpperChars)) ELSE c

RECURSIVE Lower(_)
\* str.lower()
Lower(s) == IF Len(s) = 0 THEN "" ELSE LowerChar(Char(s, 1)) \o Lower(Tail(s))

Whitespace == " \t\n\r"

RECURSIVE LStrip(_)
LStrip(s) == IF Len(s) > 0 /\ InClass(Char(s, 1), Whitespace) THEN LStrip(Tail(s)) ELSE s

RECURSIVE RStrip(_)
RStrip(s) ==
    IF Len(s) > 0 /\ InClass(Char(s, Len(s)), Whitespace)
    THEN RStrip(SubSeq(s, 1, Len(s) - 1))
    ELSE s

\* str.strip()
Strip(s) == RStrip(LStrip(s))

\* sub in s
Contains(sub, s) ==
    \E i \in 1..(Len(s) - Len(sub) + 1) : SubSeq(s, i, i + Len(sub) - 1) = sub

\* x in list
InList(x, list) == \E i \in 1..Len(list) : list[i] = x

RECURSIVE RemoveClass(_, _)
\* re.sub('[cls]', '', s)
RemoveClass(s, cls) ==
    IF Len(s) = 0 THEN ""
    ELSE (IF InClass(Char(s, 1), cls) THEN "" ELSE Char(s, 1)) \o RemoveClass(Tail(s), cls)

AllInClass(s, cls) == \A i \in 1..Len(s) : InClass(Char(s, i), cls)

(***************************************************************************)
(* DataProcessor.COLUMN_MAPPINGS and DataProcessor.find_column.            *)
(***************************************************************************)
COLUMN_MAPPINGS ==
    [date |-> <<"date", "Date", "DATE", "timestamp", "Timestamp", "time", "Time",
                "completion_time", "Completion Time", "transaction_date", "Transaction Date">>,
     amount |-> <<"amount", "Amount", "AMOUNT", "price", "Price", "total", "Total",
                  "paid_in", "Paid In", "withdrawn", "Withdrawn", "value", "Value">>,
     item |-> <<"item", "Item", "ITEM", "product", "Product", "description", "Description",
                "details", "Details", "name", "Name", "transaction_details", "Transaction Details">>,
     category |-> <<"category", "Category", "CATEGORY", "type", "Type", "class", "Class">>,
     payment_method |-> <<"payment_method", "Payment Method", "method", "Method",
                          "payment_type", "Payment Type", "mode", "Mode">>,
     receipt_no |-> <<"receipt_no", "Receipt No", "receipt", "Receipt", "transaction_id",
                      "Transaction ID", "id", "ID">>]

\* the aliases of a field; an unknown field has none (dict.get(field, []))
possible_names(field) ==
    IF field \in DOMAIN COLUMN_MAPPINGS THEN COLUMN_MAPPINGS[field] ELSE <<>>

\* first loop of find_column: the headers that are themselves an alias
ExactHits(headers, field) ==
    {i \in 1..Len(headers) : InList(headers[i], possible_names(field))}

\* second loop of find_column: the headers containing a lower-cased alias
PartialHits(headers, field) ==
    {i \in 1..Len(headers) :
        \E k \in 1..Len(possible_names(field)) :
            Contains(Lower(possible_names(field)[k]), Strip(Lower(headers[i])))}

Min(S) == CHOOSE x \in S : \A y \in S : x <= y

\* find_column with one loop that takes a header on either kind of match
find_column_SinglePass(headers, field) ==
    IF ExactHits(headers, field) \cup PartialHits(headers, field) # {}
    THEN Some(headers[Min(ExactHits(headers, field) \cup PartialHits(headers, field))])
    ELSE None

find_column(headers, field) ==
    IF ExactHits(headers, field) # {} THEN Some(headers[Min(ExactHits(headers, field))])
    ELSE IF PartialHits(headers, field) # {} THEN Some(headers[Min(PartialHits(headers, field))])
    ELSE None

(***************************************************************************)
(* Numbers as text.                                                        *)
(***************************************************************************)
DigitVal(c) == IndexIn(c, Digits) - 1

RECURSIVE NatOf(_)
\* int(s) for a non-empty string of decimal digits
NatOf(s) == IF Len(s) = 0 THEN 0 ELSE 10 * NatOf(SubSeq(s, 1, Len(s) - 1)) + DigitVal(Char(s, Len(s)))

RECURSIVE NatStr(_)
\* str(n) for a natural number
NatStr(n) == IF n < 10 THEN Char(Digits, n + 1) ELSE NatStr(n \div 10) \o Char(Digits, (n % 10) + 1)

RECURSIVE Pad(_, _)
\* n formatted with at least w digits, zero-padded: '%0wd' % n
Pad(n, w) == IF Len(NatStr(n)) >= w THEN NatStr(n) ELSE "0" \o Pad(n, w - 1) 

RECURSIVE StripLeadingZeros(_)
StripLeadingZeros(s) == IF Len(s) > 0 /\ Char(s, 1) = "0" THEN StripLeadingZeros(Tail(s)) ELSE s

RECURSIVE StripTrailingZeros(_)
StripTrailingZeros(s) ==
    IF Len(s) > 0 /\ Char(s, Len(s)) = "0"
    THEN StripTrailingZeros(SubSeq(s, 1, Len(s) - 1))
    ELSE s

(***************************************************************************)
(* float(s) and repr(float).  A float is modelled by its repr, which is a  *)
(* one-to-one name of the value: "120000.0", "0.5", "-3.0", "0.0", "-0.0", *)
(* "inf", "-inf", "nan".  Covered literals: an optional sign followed by   *)
(* inf, infinity or nan in any letter case, or by digits with an optional  *)
(* point (at most 15 significant digits, magnitude in [1e-4, 1e16) or 0,   *)
(* for which repr is positional and exact).  Exponents and underscores are *)
(* outside the inputs of the model.                                        *)
(***************************************************************************)
FloatSign(s) == IF Len(s) > 0 /\ Char(s, 1) = "-" THEN "-" ELSE ""

FloatBody(s) == IF Len(s) > 0 /\ InClass(Char(s, 1), "+-") THEN Tail(s) ELSE s

PointAt(s) == IF InClass(".", s) THEN IndexIn(".", s) ELSE Len(s) + 1

IntDigits(s) == SubSeq(s, 1, PointAt(s) - 1)

FracDigits(s) == SubSeq(s, PointAt(s) + 1, Len(s))

IsDecimal(s) ==
    /\ AllInClass(IntDigits(s), Digits)
    /\ AllInClass(FracDigits(s), Digits)
    /\ Len(IntDigits(s)) + Len(FracDigits(s)) > 0

DecimalRepr(s) ==
    (IF StripLeadingZeros(IntDigits(s)) = "" THEN "0" ELSE StripLeadingZeros(IntDigits(s)))
    \o "." \o
    (IF StripTrailingZeros(FracDigits(s)) = "" THEN "0" ELSE StripTrailingZeros(FracDigits(s)))

\* float(s): None for ValueError, else the repr of the value
PyFloat(s) ==
    IF Lower(FloatBody(s)) \in {"inf", "infinity"} THEN Some(FloatSign(s) \o "inf")
    ELSE IF Lower(FloatBody(s)) = "nan" THEN Some("nan")
    ELSE IF IsDecimal(FloatBody(s)) THEN Some(FloatSign(s) \o DecimalRepr(FloatBody(s)))
    ELSE None

\* x <= 0 for a float x given by its repr (nan compares False)
FloatLeqZero(x) == x # "nan" /\ (Char(x, 1) = "-" \/ x = "0.0")

(***************************************************************************)
(* DataProcessor.parse_amount                                              *)
(***************************************************************************)
AmountJunk == "KES$," \o Whitespace

\* the value of the try block, and 0.0 when float raised ValueError
FloatOrZero(x) == IF x = None THEN "0.0" ELSE x[1]

parse_amount(amount_str) ==
    IF amount_str = None \/ amount_str = Some("") THEN "0.0"
    ELSE FloatOrZero(PyFloat(RemoveClass(Strip(amount_str[1]), AmountJunk)))

(***************************************************************************)
(* datetime values: records of the seven fields of a Python datetime.      *)
(***************************************************************************)
MkDatetime(y, mo, d, h, mi, sec, us) ==
    [year |-> y, month |-> mo, day |-> d, hour |-> h, minute |-> mi, second |-> sec,
     microsecond |-> us]

IsLeap(y) == (y % 4 = 0 /\ y % 100 # 0) \/ y % 400 = 0

DaysInMonth(y, mo) ==
    IF mo = 2 THEN (IF IsLeap(y) THEN 29 ELSE 28)
    ELSE IF mo \in {4, 6, 9, 11} THEN 30
    ELSE 31

\* datetime.isoformat()
isoformat(dt) ==
    Pad(dt.year, 4) \o "-" \o Pad(dt.month, 2) \o "-" \o Pad(dt.day, 2) \o "T"
    \o Pad(dt.hour, 2) \o ":" \o Pad(dt.minute, 2) \o ":" \o Pad(dt.second, 2)
    \o (IF dt.microsecond = 0 THEN "" ELSE "." \o Pad(dt.microsecond, 6))

\* datetime.strftime('%Y-%m-%d'), for years of four digits
strftime_ymd(dt) == Pad(dt.year, 4) \o "-" \o Pad(dt.month, 2) \o "-" \o Pad(dt.day, 2)

\* The instant the process clock shows at reading t: the readings of the
\* model are successive microseconds of one second.
ClockEpoch == MkDatetime(2026, 11, 4, 9, 30, 0, 0)

\* datetime.now() when the clock reads t
now(t) == [ClockEpoch EXCEPT !.microsecond = t]

(***************************************************************************)
(* datetime.strptime(s, fmt) for the directives of DataProcessor.parse_date*)
(* (%Y %m %d %b %H %M %S), as _strptime does it: the format becomes a      *)
(* regular expression, one alternation per directive, white space in the   *)
(* format matching \s+; the whole string must be consumed, and the fields  *)
(* must form a valid calendar date.                                        *)
(***************************************************************************)
MonthAbbr == <<"jan", "feb", "mar", "apr", "may", "jun", "jul", "aug", "sep", "oct", "nov", "dec">>

\* the text f matches the regular expression of directive d
FieldMatches(d, f) ==
    CASE d = "Y" -> Len(f) = 4 /\ AllInClass(f, Digits)
      [] d = "m" -> \/ Len(f) = 2 /\ Char(f, 1) = "1" /\ InClass(Char(f, 2), "012")
                    \/ Len(f) = 2 /\ Char(f, 1) = "0" /\ InClass(Char(f, 2), "123456789")
                    \/ Len(f) = 1 /\ InClass(f, "123456789")
      [] d = "d" -> \/ Len(f) = 2 /\ Char(f, 1) = "3" /\ InClass(Char(f, 2), "01")
                    \/ Len(f) = 2 /\ InClass(Char(f, 1), "12") /\ InClass(Char(f, 2), Digits)
                    \/ Len(f) = 2 /\ Char(f, 1) = "0" /\ InClass(Char(f, 2), "123456789")
                    \/ Len(f) = 1 /\ InClass(f, "123456789")
                    \/ Len(f) = 2 /\ Char(f, 1) = " " /\ InClass(Char(f, 2), "123456789")
      [] d = "H" -> \/ Len(f) = 2 /\ Char(f, 1) = "2" /\ InClass(Char(f, 2), "0123")
                    \/ Len(f) = 2 /\ InClass(Char(f, 1), "01") /\ InClass(Char(f, 2), Digits)
                    \/ Len(f) = 1 /\ InClass(f, Digits)
      [] d = "M" -> \/ Len(f) = 2 /\ InClass(Char(f, 1), "012345") /\ InClass(Char(f, 2), Digits)
                    \/ Len(f) = 1 /\ InClass(f, Digits)
      [] d = "S" -> \/ Len(f) = 2 /\ Char(f, 1) = "6" /\ InClass(Char(f, 2), "01")
                    \/ Len(f) = 2 /\ InClass(Char(f, 1), "012345") /\ InClass(Char(f, 2), Digits)
                    \/ Len(f) = 1 /\ InClass(f, Digits)
      [] d = "b" -> InList(Lower(f), MonthAbbr)
      [] OTHER -> FALSE

\* the number a matched field stands for
FieldValue(d, f) ==
    IF d = "b" THEN CHOOSE k \in 1..12 : MonthAbbr[k] = Lower(f)
    ELSE NatOf(LStrip(f))

Max(S) == CHOOSE x \in S : \A y \in S : y <= x

\* the length of the text the regular expression of directive d takes at
\* the start of s, 0 when it does not match there.  The alternations try
\* their two-character branches before the one-character branch, and every
\* directive of the formats is followed by a separator or by the end of the
\* format, where a shorter branch would leave a digit unmatched: the
\* longest matching field is the one the regular expression settles on.
FieldLen(d, s) ==
    Max({0} \cup {n \in 1..4 : n <= Len(s) /\ FieldMatches(d, SubSeq(s, 1, n))})

RECURSIVE RegexMatch(_, _, _)
RECURSIVE MatchField(_, _, _, _, _)
\* Match s against the rest fmt of the format; found maps the directives
\* matched so far to their values.  None when the match fails or leaves
\* text unconverted.
RegexMatch(s, fmt, found) ==
    IF fmt = "" THEN (IF s = "" THEN Some(found) ELSE None)
    ELSE IF Char(fmt, 1) = "%" THEN MatchField(s, fmt, found, Char(fmt, 2), FieldLen(Char(fmt, 2), s))
    ELSE IF InClass(Char(fmt, 1), Whitespace) THEN
        IF Len(s) > 0 /\ InClass(Char(s, 1), Whitespace)
        THEN RegexMatch(LStrip(s), Tail(fmt), found)
        ELSE None
    ELSE IF Len(s) > 0 /\ Lower(Char(s, 1)) = Lower(Char(fmt, 1))
        THEN RegexMatch(Tail(s), Tail(fmt), found)
        ELSE None

\* RegexMatch at a directive d of fmt whose field takes the first n
\* characters of s
MatchField(s, fmt, found, d, n) ==
    IF n = 0 THEN None
    ELSE RegexMatch(SubSeq(s, n + 1, Len(s)), SubSeq(fmt, 3, Len(fmt)),
                    found @@ (d :> FieldValue(d, SubSeq(s, 1, n))))

FieldOr(found, d, default) == IF d \in DOMAIN found THEN found[d] ELSE default

\* the datetime of the match m of the regular expression: None for
\* ValueError (no match, or fields that form no calendar date: the
\* regular expression of %S takes 60 and 61, the datetime constructor not)
DatetimeOfMatch(m) ==
    IF m = None THEN None
    ELSE LET y == FieldOr(m[1], "Y", 1900)
             mo == IF "b" \in DOMAIN m[1] THEN m[1]["b"] ELSE FieldOr(m[1], "m", 1)
             d == FieldOr(m[1], "d", 1)
         IN  IF y < 1 \/ d > DaysInMonth(y, mo) \/ FieldOr(m[1], "S", 0) > 59 THEN None
             ELSE Some(MkDatetime(y, mo, d, FieldOr(m[1], "H", 0), FieldOr(m[1], "M", 0),
                                  FieldOr(m[1], "S", 0), 0))

\* strptime: None for ValueError
strptime(s, fmt) == DatetimeOfMatch(RegexMatch(s, fmt, <<>>))

(***************************************************************************)
(* DataProcessor.parse_date; t is the clock reading for datetime.now()     *)
(***************************************************************************)
\* formats with the day-first pattern listed before the month-first one
formats_DayFirst ==
    <<"%Y-%m-%d", "%d/%m/%Y", "%m/%d/%Y", "%Y/%m/%d", "%d-%m-%Y", "%d-%b-%Y", "%d %b %Y",
      "%d/%m/%Y %H:%M", "%Y-%m-%d %H:%M:%S", "%d/%m/%Y %H:%M:%S">>

formats ==
    <<"%Y-%m-%d", "%m/%d/%Y", "%d/%m/%Y", "%Y/%m/%d", "%d-%m-%Y", "%d-%b-%Y", "%d %b %Y",
      "%d/%m/%Y %H:%M", "%Y-%m-%d %H:%M:%S", "%d/%m/%Y %H:%M:%S">>

\* one round of the loop over formats: return the parsed date, or continue
\* with the rest of the loop when strptime raised ValueError
ReturnOrContinue(parsed, rest) == IF parsed # None THEN parsed[1] ELSE rest

RECURSIVE TryFormats(_, _, _)
\* the loop over formats from the k-th on: the first successful strptime,
\* and datetime.now() when every format raises ValueError
TryFormats(s, k, t) ==
    IF k > Len(formats) THEN now(t)
    ELSE ReturnOrContinue(strptime(s, formats[k]), TryFormats(s, k + 1, t))

parse_date(date_str, t) ==
    IF date_str = None \/ date_str = Some("") THEN now(t)
    ELSE IF Strip(date_str[1]) = "" THEN now(t)
    ELSE TryFormats(Strip(date_str[1]), 1, t)

(***************************************************************************)
(* DataProcessor.categorize_transaction                                    *)
(***************************************************************************)
ElectronicsWords ==
    <<"phone", "laptop", "computer", "tablet", "tv", "electronics", "camera", "iphone", "samsung">>

AccessoriesWords ==
    <<"case", "charger", "cable", "headphone", "earphone", "adapter", "cover", "screen protector">>

FoodWords == <<"food", "meal", "lunch", "dinner", "breakfast", "restaurant", "cafe", "snack">>

ServicesWords == <<"service", "repair", "maintenance", "consultation", "delivery", "shipping">>

\* any(word in text for word in words)
AnyWordIn(words, text) == \E k \in 1..Len(words) : Contains(words[k], text)

\* CategoryOfText with the accessories keywords tested first
CategoryOfText_AccessoriesFirst(text) ==
    IF AnyWordIn(AccessoriesWords, text) THEN "Accessories"
    ELSE IF AnyWordIn(ElectronicsWords, text) THEN "Electronics"
    ELSE IF AnyWordIn(FoodWords, text) THEN "Food & Beverage"
    ELSE IF AnyWordIn(ServicesWords, text) THEN "Services"
    ELSE "Other"

\* the category of the lower-cased text
CategoryOfText(text) ==
    IF AnyWordIn(ElectronicsWords, text) THEN "Electronics"
    ELSE IF AnyWordIn(AccessoriesWords, text) THEN "Accessories"
    ELSE IF AnyWordIn(FoodWords, text) THEN "Food & Beverage"
    ELSE IF AnyWordIn(ServicesWords, text) THEN "Services"
    ELSE "Other"

categorize_transaction(item, details) == CategoryOfText(Lower(item \o " " \o details))

(***************************************************************************)
(* DataProcessor.generate_transaction_id.  hashlib.md5(s).hexdigest()[:16] *)
(* is modelled as a collision-free digest of the hashed text.              *)
(***************************************************************************)
md5_16(s) == <<"md5", s>>

generate_transaction_id(date, amount, item, receipt_no) ==
    IF receipt_no # None /\ receipt_no # Some("") THEN md5_16(receipt_no[1])
    ELSE md5_16(isoformat(date) \o amount \o item)

(***************************************************************************)
(* csv.DictReader: an uploaded file is modelled after decoding and CSV     *)
(* splitting, as its header line and its data rows, each a sequence of     *)
(* cells no longer than the header line.                                   *)
(***************************************************************************)
\* row.get(col): the cell under header col.  Of several equal headers the
\* last one supplies the value, and a header the row is too short for maps
\* to None (restval).
RowGet(headers, row, col) ==
    LET last == Max({i \in 1..Len(headers) : headers[i] = col}) IN
    IF last <= Len(row) THEN Some(row[last]) ELSE None

\* row.get(col, default) if col else default
CellOf(headers, row, col, default) ==
    IF col = None THEN default ELSE RowGet(headers, row, col[1])

RECURSIVE Join(_, _)
\* sep.join(list)
Join(list, sep) ==
    IF Len(list) = 0 THEN ""
    ELSE IF Len(list) = 1 THEN list[1]
    ELSE list[1] \o sep \o Join(Tail(list), sep)

(***************************************************************************)
(* DataProcessor.parse_csv                                                 *)
(***************************************************************************)
\* the column mapping parse_csv computes from the headers
ColumnsOf(headers) ==
    [date_col |-> find_column(headers, "date"),
     amount_col |-> find_column(headers, "amount"),
     item_col |-> find_column(headers, "item"),
     category_col |-> find_column(headers, "category"),
     method_col |-> find_column(headers, "payment_method"),
     receipt_col |-> find_column(headers, "receipt_no")]

\* RequiredColumnsError without the check of the amount column
RequiredColumnsError_NoAmountCheck(headers, cols) ==
    IF Len(headers) = 0 THEN Some("CSV has no headers")
    ELSE IF cols.date_col = None /\ cols.receipt_col = None
        THEN Some("CSV must contain a date/time column. Found columns: " \o Join(headers, ", "))
    ELSE None

\* RequiredColumnsError insisting on a date column whatever the receipt column
RequiredColumnsError_DateOnly(headers, cols) ==
    IF Len(headers) = 0 THEN Some("CSV has no headers")
    ELSE IF cols.date_col = None
        THEN Some("CSV must contain a date/time column. Found columns: " \o Join(headers, ", "))
    ELSE IF cols.amount_col = None
        THEN Some("CSV must contain an amount column. Found columns: " \o Join(headers, ", "))
    ELSE None

\* "Validate required columns": None when the checks pass, else the message
\* of the ValueError raised
RequiredColumnsError(headers, cols) ==
    IF Len(headers) = 0 THEN Some("CSV has no headers")
    ELSE IF cols.date_col = None /\ cols.receipt_col = None
        THEN Some("CSV must contain a date/time column. Found columns: " \o Join(headers, ", "))
    ELSE IF cols.amount_col = None
        THEN Some("CSV must contain an amount column. Found columns: " \o Join(headers, ", "))
    ELSE None

\* the amount of a row, as the loop body computes it
RowAmount(headers, cols, row) == parse_amount(CellOf(headers, row, cols.amount_col, Some("0")))

\* the row is skipped by the check "if amount <= 0"
RowSkipped(headers, cols, row) == FloatLeqZero(RowAmount(headers, cols, row))

\* "Extract item/description": the item of a row from its cell
ItemOf(cell_item) ==
    IF cell_item = None \/ cell_item = Some("") THEN "Unknown Item"
    ELSE IF Strip(cell_item[1]) = "" THEN "Unknown Item"
    ELSE cell_item[1]

\* "Extract or infer category"
CategoryOf(cell_category, item) ==
    IF cell_category = None \/ cell_category = Some("")
    THEN categorize_transaction(item, "")
    ELSE cell_category[1]

\* the dict transaction built from the locals of the loop body
Transaction(date, amount, item, cell_category, method, receipt_no, source_type) ==
    [id |-> generate_transaction_id(date, amount, item, receipt_no),
     date |-> strftime_ymd(date),
     timestamp |-> isoformat(date),
     item |-> Strip(item),
     amount |-> amount,
     category |-> CategoryOf(cell_category, item),
     payment_method |-> method,
     source_type |-> source_type,
     receipt_no |-> receipt_no]

\* the body of the row loop for a row that is kept; t is the clock reading
ParseRow(headers, cols, row, source_type, t) ==
    Transaction(parse_date(CellOf(headers, row, cols.date_col, Some("")), t),
                RowAmount(headers, cols, row),
                ItemOf(CellOf(headers, row, cols.item_col, Some("Unknown Item"))),
                CellOf(headers, row, cols.category_col, Some("")),
                CellOf(headers, row, cols.method_col, Some("Cash")),
                CellOf(headers, row, cols.receipt_col, Some("")),
                source_type)

RECURSIVE ParseRows_StopsBeforeLast(_, _, _, _, _)
\* ParseRows with a loop that ends one row early
ParseRows_StopsBeforeLast(headers, cols, rows, source_type, t) ==
    IF Len(rows) <= 1 THEN <<>>
    ELSE (IF RowSkipped(headers, cols, rows[1]) THEN <<>>
          ELSE <<ParseRow(headers, cols, rows[1], source_type, t)>>)
         \o ParseRows_StopsBeforeLast(headers, cols, Tail(rows), source_type, t)

RECURSIVE ParseRows(_, _, _, _, _)
\* the row loop: the transactions of the rows that are not skipped, in order
ParseRows(headers, cols, rows, source_type, t) ==
    IF Len(rows) = 0 THEN <<>>
    ELSE (IF RowSkipped(headers, cols, rows[1]) THEN <<>>
          ELSE <<ParseRow(headers, cols, rows[1], source_type, t)>>)
         \o ParseRows(headers, cols, Tail(rows), source_type, t)

\* the local counter skipped at the end of the row loop
SkippedCount(headers, cols, rows) ==
    Cardinality({i \in 1..Len(rows) : RowSkipped(headers, cols, rows[i])})

\* the message of the ValueError raised after the row loop when no row was
\* kept (with no row at all the message itself fails, on the unbound idx)
NoTransactionsError(headers, cols, rows) ==
    IF Len(rows) = 0 THEN "cannot access local variable 'idx'"
    ELSE "No valid transactions found in CSV. Processed " \o NatStr(Len(rows))
         \o " rows, skipped " \o NatStr(SkippedCount(headers, cols, rows))
         \o ". Please check your data format."

\* ParseOutcome returning the empty list when no row was kept
ParseOutcome_EmptyList(content, cols, required_error, kept) ==
    IF required_error # None
    THEN [ok |-> FALSE, error |-> "Failed to parse CSV: " \o required_error[1]]
    ELSE [ok |-> TRUE,
          transactions |-> kept,
          skipped |-> SkippedCount(content.headers, cols, content.rows)]

\* the end of parse_csv, given the ValueError of the required-column
\* checks (None when they pass) and the transactions kept by the row loop
ParseOutcome(content, cols, required_error, kept) ==
    IF required_error # None
    THEN [ok |-> FALSE, error |-> "Failed to parse CSV: " \o required_error[1]]
    ELSE IF kept = <<>>
    THEN [ok |-> FALSE,
          error |-> "Failed to parse CSV: "
                    \o NoTransactionsError(content.headers, cols, content.rows)]
    ELSE [ok |-> TRUE,
          transactions |-> kept,
          skipped |-> SkippedCount(content.headers, cols, content.rows)]

\* parse_csv once the column mapping cols is computed
ParseWithColumns(content, cols, source_type, t) ==
    ParseOutcome(content, cols, RequiredColumnsError(content.headers, cols),
                 ParseRows(content.headers, cols, content.rows, source_type, t))

\* parse_csv: [ok |-> TRUE, transactions, skipped] when it returns, and
\* [ok |-> FALSE, error] when it raises ValueError (every exception leaves
\* it as a ValueError)
parse_csv(content, source_type, t) ==
    ParseWithColumns(content, ColumnsOf(content.headers), source_type, t)

(***************************************************************************)
(* DataProcessor.normalize_for_bigquery; t is the clock reading            *)
(***************************************************************************)
NormalizeRow(txn, user_id, t) ==
    [id |-> txn.id,
     user_id |-> user_id,
     date |-> txn.date,
     timestamp |-> txn.timestamp,
     item |-> txn.item,
     amount |-> txn.amount,
     category |-> txn.category,
     payment_method |-> txn.payment_method,
     source |-> txn.source_type,
     metadata |-> [receipt_no |-> txn.receipt_no, processed_at |-> isoformat(now(t))]]

normalize_for_bigquery(transactions, user_id, t) ==
    [k \in 1..Len(transactions) |-> NormalizeRow(transactions[k], user_id, t)]

(***************************************************************************)
(* The requests of the model: uploads of small CSV files.                  *)
(***************************************************************************)
\* the sample of scripts/test_connectors.py: a content row repeated in the file
CsvRepeated ==
    [headers |-> <<"Date", "Item", "Amount">>,
     rows |-> << <<"2025-10-01", "iPhone 15", "120000">>,
                 <<"2025-10-01", "iPhone 15", "120000">> >>]

\* a mobile-money statement without a date column: one receipt, two amounts
CsvReceipts ==
    [headers |-> <<"Receipt No", "Amount">>,
     rows |-> << <<"ABC123", "100">>, <<"ABC123", "250">> >>]

\* one row with an amount that is not positive
CsvBadAmount ==
    [headers |-> <<"Date", "Item", "Amount">>,
     rows |-> << <<"2025-10-02", "Laptop Case", "KES 2,500">>,
                 <<"2025-10-03", "Headphones", "-4500">> >>]

\* one row with a date no format parses
CsvBadDate ==
    [headers |-> <<"Date", "Item", "Amount">>,
     rows |-> << <<"2025-10-02", "Laptop Case", "2500">>,
                 <<"soon", "Headphones", "4500">> >>]

\* no header resolves to the amount field
CsvNoAmount ==
    [headers |-> <<"Date", "Item">>,
     rows |-> << <<"2025-10-01", "iPhone 15">> >>]

\* an amount column, but neither a date nor a receipt column
CsvNoDateNoReceipt ==
    [headers |-> <<"Item", "Amount">>,
     rows |-> << <<"Headphones", "4500">> >>]

\* every row is skipped
CsvAllBad ==
    [headers |-> <<"Date", "Amount">>,
     rows |-> << <<"2025-10-01", "0">> >>]

Contents ==
    {CsvRepeated, CsvReceipts, CsvBadAmount, CsvBadDate, CsvNoAmount, CsvNoDateNoReceipt,
     CsvAllBad}

\* file name, content and source_type of an upload
Uploads ==
    [filename : {"transactions.csv"}, content : Contents \ {CsvReceipts}, source_type : {"sheets"}]
    \cup [filename : {"statement.csv", "statement.txt"}, content : {CsvReceipts},
          source_type : {"mpesa"}]

\* the subjects of the access tokens
Users == {"demo-user-001", "demo-user-002"}

\* the upload requests of the model: the first user sends every upload, the
\* second user the mobile-money statement
Requests ==
    {r \in [user_id : Users, upload : Uploads] :
        r.user_id = "demo-user-001" \/ r.upload.filename = "statement.csv"}

\* str(uuid.uuid4()): the k-th identifier generated
Uuid(k) == "job-" \o NatStr(k)

\* parse_csv of every request at every clock reading, tabulated once
ParsedUploads ==
    [up \in Uploads, t \in 0..MaxClock |-> parse_csv(up.content, up.source_type, t)] @@ <<>>

EndsWith(s, suffix) ==
    Len(s) >= Len(suffix) /\ SubSeq(s, Len(s) - Len(suffix) + 1, Len(s)) = suffix

(***************************************************************************)
(* State.                                                                  *)
(*   clock                   reading of the process clock                  *)
(*   ingestion_status_cache  the module-level dict of app/api/ingestion.py *)
(*   transactions            the rows of the BigQuery table 'transactions' *)
(*                           (a bag: the table is append-only)             *)
(*   tasks                   the background tasks added by upload_csv:     *)
(*                           arguments, position and locals of each        *)
(*   response                the HTTP response sent by the step that led   *)
(*                           to the state, NoResponse after any other step *)
(*   requests                history: the upload that issued each id       *)
(*   calls                   history: the calls of the DataProcessor       *)
(*                           functions made directly, with their results   *)
(*   sheet                   the worksheet a SheetsConnector reads: the    *)
(*                           list sheet.get_all_values() returns           *)
(*   connectors              ConnectorManager.connectors: the connector    *)
(*                           objects by key, each with its fields          *)
(*   sync_states             ConnectorManager.sync_states                  *)
(*   sync_result             what the last call of the connector API       *)
(*                           returned or raised                            *)
(***************************************************************************)
VARIABLES clock, ingestion_status_cache, transactions, tasks, response, requests,
          calls, sheet, connectors, sync_states, sync_result

parse_vars == <<calls>>

connector_vars == <<sheet, connectors, sync_states, sync_result>>

vars == <<clock, ingestion_status_cache, transactions, tasks, response, requests,
          calls, sheet, connectors, sync_states, sync_result>>

NoResponse == [op |-> "none", code |-> 0, body |-> <<>>]

\* the header row of the worksheet
SheetHeaders == <<"Date", "Item", "Amount">>

\* no call of the connector API has been made
NoResult == [op |-> "none"]

Init ==
    /\ clock = 0
    /\ ingestion_status_cache = <<>>
    /\ transactions = EmptyBag
    /\ tasks = <<>>
    /\ response = NoResponse
    /\ requests = <<>>
    /\ calls = <<>>
    /\ sheet = <<SheetHeaders>>
    /\ connectors = <<>>
    /\ sync_states = <<>>
    /\ sync_result = NoResult

\* the ids issued so far
Issued == DOMAIN ingestion_status_cache

\* time passes
Tick ==
    /\ clock < MaxClock
    /\ clock' = clock + 1
    /\ response' = NoResponse
    /\ UNCHANGED <<ingestion_status_cache, transactions, tasks, requests>>
    /\ UNCHANGED <<parse_vars, connector_vars>>

(***************************************************************************)
(* POST /upload/csv (upload_csv).  FastAPI injects background_tasks, so    *)
(* the task is added to run after the response.                            *)
(***************************************************************************)
\* InitialStatus with another name for the first state
InitialStatus_Queued(ingestion_id, rows) ==
    [ingestion_id |-> ingestion_id,
     status |-> "queued",
     rows_uploaded |-> Len(rows),
     rows_processed |-> 0,
     message |-> "Processing " \o NatStr(Len(rows)) \o " rows"]

\* the value stored in the cache at "Initialize status"
InitialStatus(ingestion_id, rows) ==
    [ingestion_id |-> ingestion_id,
     status |-> "processing",
     rows_uploaded |-> Len(rows),
     rows_processed |-> 0,
     message |-> "Processing " \o NatStr(Len(rows)) \o " rows"]

upload_csv(user_id, up) ==
    /\ Cardinality(Issued) < MaxJobs
    /\ \E parsed \in {ParsedUploads[up, clock]}, ingestion_id \in {Uuid(Cardinality(Issued) + 1)} :
           IF ~EndsWith(up.filename, ".csv") THEN
               /\ response' = [op |-> "upload", code |-> 400,
                               body |-> <<"Only CSV files are supported">>]
               /\ UNCHANGED <<ingestion_status_cache, tasks, requests>>
           ELSE IF ~parsed.ok THEN
               /\ response' = [op |-> "upload", code |-> 500,
                               body |-> <<"Failed to parse CSV: " \o parsed.error>>]
               /\ UNCHANGED <<ingestion_status_cache, tasks, requests>>
           ELSE IF parsed.transactions = <<>> THEN
               /\ response' = [op |-> "upload", code |-> 400,
                               body |-> <<"No valid data found in CSV">>]
               /\ UNCHANGED <<ingestion_status_cache, tasks, requests>>
           ELSE
               /\ ingestion_status_cache' =
                      ingestion_status_cache @@
                      (ingestion_id :> InitialStatus(ingestion_id, parsed.transactions))
               /\ tasks' = tasks @@
                      (ingestion_id :> [pc |-> "added", user_id |-> user_id,
                                        rows |-> parsed.transactions,
                                        source_type |-> up.source_type,
                                        normalized_rows |-> <<>>, error |-> ""])
               /\ requests' = requests @@
                      (ingestion_id :> [user_id |-> user_id, upload |-> up,
                                        rows |-> parsed.transactions,
                                        skipped |-> parsed.skipped,
                                        completed_before |->
                                            {j \in Issued :
                                                ingestion_status_cache[j].status = "completed"}])
               /\ response' = [op |-> "upload", code |-> 200,
                               body |-> <<ingestion_id, "processing",
                                          NatStr(Len(parsed.transactions))>>]
    /\ UNCHANGED <<clock, transactions>>
    /\ UNCHANGED <<parse_vars, connector_vars>>

(***************************************************************************)
(* process_and_ingest_task, run in the thread pool: one step up to the     *)
(* return or the exception of bq_client.insert_rows, one step for the      *)
(* status update that follows.                                             *)
(***************************************************************************)
RECURSIVE SeqToBag(_)
SeqToBag(rows) == IF Len(rows) = 0 THEN EmptyBag ELSE SetToBag({rows[1]}) (+) SeqToBag(Tail(rows))

\* BigQueryClient.insert_rows on success: the load job appends the rows
insert_rows(table, rows) == table (+) SeqToBag(rows)

\* normalize_for_bigquery, then insert_rows returns
TaskInsert(id) ==
    /\ id \in DOMAIN tasks
    /\ tasks[id].pc = "added"
    /\ LET normalized_rows == normalize_for_bigquery(tasks[id].rows, tasks[id].user_id, clock)
       IN  /\ transactions' = insert_rows(transactions, normalized_rows)
           /\ tasks' = [tasks EXCEPT ![id].pc = "inserted",
                                     ![id].normalized_rows = normalized_rows]
    /\ response' = NoResponse
    /\ UNCHANGED <<clock, ingestion_status_cache, requests>>
    /\ UNCHANGED <<parse_vars, connector_vars>>

\* the errors insert_rows raises in the model
SinkErrors == {"load job failed"}

\* a task that has returned: its arguments and locals are gone
TaskReturned ==
    [pc |-> "done", user_id |-> "", rows |-> <<>>, source_type |-> "", normalized_rows |-> <<>>,
     error |-> ""]

\* TaskInsertRaises with no handler around the insert: the error leaves the task
TaskInsertRaises_Unhandled(id, e) ==
    /\ id \in DOMAIN tasks
    /\ tasks[id].pc = "added"
    /\ tasks' = [tasks EXCEPT ![id] = TaskReturned]
    /\ response' = NoResponse
    /\ UNCHANGED <<clock, ingestion_status_cache, transactions, requests>>
    /\ UNCHANGED <<parse_vars, connector_vars>>

\* normalize_for_bigquery, then insert_rows raises: the load job failed,
\* and a load job appends all of its rows or none
TaskInsertRaises(id, e) ==
    /\ id \in DOMAIN tasks
    /\ tasks[id].pc = "added"
    /\ tasks' = [tasks EXCEPT ![id].pc = "raised",
                              ![id].normalized_rows =
                                  normalize_for_bigquery(tasks[id].rows, tasks[id].user_id, clock),
                              ![id].error = e]
    /\ response' = NoResponse
    /\ UNCHANGED <<clock, ingestion_status_cache, transactions, requests>>
    /\ UNCHANGED <<parse_vars, connector_vars>>

\* TaskCompleted with the status update placed before the insert
TaskCompleted_BeforeInsert(id) ==
    /\ id \in DOMAIN tasks
    /\ tasks[id].pc = "added"
    /\ ingestion_status_cache' =
           [ingestion_status_cache EXCEPT ![id] =
               [ingestion_id |-> id,
                status |-> "completed",
                rows_uploaded |-> Len(tasks[id].rows),
                rows_processed |-> Len(tasks[id].rows),
                message |-> "Successfully processed " \o NatStr(Len(tasks[id].rows)) \o " rows"]]
    /\ tasks' = [tasks EXCEPT ![id] = TaskReturned]
    /\ response' = NoResponse
    /\ UNCHANGED <<clock, transactions, requests>>
    /\ UNCHANGED <<parse_vars, connector_vars>>

\* "Update status - SUCCESS"
TaskCompleted(id) ==
    /\ id \in DOMAIN tasks
    /\ tasks[id].pc = "inserted"
    /\ ingestion_status_cache' =
           [ingestion_status_cache EXCEPT ![id] =
               [ingestion_id |-> id,
                status |-> "completed",
                rows_uploaded |-> Len(tasks[id].rows),
                rows_processed |-> Len(tasks[id].normalized_rows),
                message |-> "Successfully processed "
                            \o NatStr(Len(tasks[id].normalized_rows)) \o " rows"]]
    /\ tasks' = [tasks EXCEPT ![id] = TaskReturned]
    /\ response' = NoResponse
    /\ UNCHANGED <<clock, transactions, requests>>
    /\ UNCHANGED <<parse_vars, connector_vars>>

\* TaskFailed reporting the rows that had been normalized
TaskFailed_PartialCount(id) ==
    /\ id \in DOMAIN tasks
    /\ tasks[id].pc = "raised"
    /\ ingestion_status_cache' =
           [ingestion_status_cache EXCEPT ![id] =
               [ingestion_id |-> id,
                status |-> "failed",
                rows_uploaded |-> Len(tasks[id].rows),
                rows_processed |-> Len(tasks[id].normalized_rows),
                message |-> "Error: " \o tasks[id].error]]
    /\ tasks' = [tasks EXCEPT ![id] = TaskReturned]
    /\ response' = NoResponse
    /\ UNCHANGED <<clock, transactions, requests>>
    /\ UNCHANGED <<parse_vars, connector_vars>>

\* "Update status - FAILED"
TaskFailed(id) ==
    /\ id \in DOMAIN tasks
    /\ tasks[id].pc = "raised"
    /\ ingestion_status_cache' =
           [ingestion_status_cache EXCEPT ![id] =
               [ingestion_id |-> id,
                status |-> "failed",
                rows_uploaded |-> Len(tasks[id].rows),
                rows_processed |-> 0,
                message |-> "Error: " \o tasks[id].error]]
    /\ tasks' = [tasks EXCEPT ![id] = TaskReturned]
    /\ response' = NoResponse
    /\ UNCHANGED <<clock, transactions, requests>>
    /\ UNCHANGED <<parse_vars, connector_vars>>

(***************************************************************************)
(* GET /status/{ingestion_id} (get_ingestion_status)                       *)
(***************************************************************************)
\* get_ingestion_status answering an unknown id with a record it creates
get_ingestion_status_Default(ingestion_id) ==
    /\ response' = [op |-> "status", code |-> 200,
                    body |-> <<IF ingestion_id \in DOMAIN ingestion_status_cache
                               THEN ingestion_status_cache[ingestion_id]
                               ELSE [ingestion_id |-> ingestion_id, status |-> "pending"]>>]
    /\ ingestion_status_cache' =
           IF ingestion_id \in DOMAIN ingestion_status_cache THEN ingestion_status_cache
           ELSE ingestion_status_cache
                @@ (ingestion_id :> [ingestion_id |-> ingestion_id, status |-> "pending"])
    /\ UNCHANGED <<clock, transactions, tasks, requests>>
    /\ UNCHANGED <<parse_vars, connector_vars>>

get_ingestion_status(ingestion_id) ==
    /\ response' = IF ingestion_id \in DOMAIN ingestion_status_cache
                   THEN [op |-> "status", code |-> 200,
                         body |-> <<ingestion_status_cache[ingestion_id]>>]
                   ELSE [op |-> "status", code |-> 404, body |-> <<"Ingestion not found">>]
    /\ UNCHANGED <<clock, ingestion_status_cache, transactions, tasks, requests>>
    /\ UNCHANGED <<parse_vars, connector_vars>>

\* the ids a client may ask about
JobIds == {Uuid(k) : k \in 1..(MaxJobs + 1)}

\* the steps of the ingestion pipeline
Next ==
    \/ Tick
    \/ \E r \in Requests : upload_csv(r.user_id, r.upload)
    \/ \E id \in JobIds : TaskInsert(id)
    \/ \E id \in JobIds, e \in SinkErrors : TaskInsertRaises(id, e)
    \/ \E id \in JobIds : TaskCompleted(id)
    \/ \E id \in JobIds : TaskFailed(id)

Spec == Init /\ [][Next]_vars

\* the pipeline together with clients polling the status endpoint
NextApi ==
    \/ Next
    \/ \E id \in JobIds : get_ingestion_status(id)

SpecApi == Init /\ [][NextApi]_vars

\* one client: it uploads a file that is accepted or a file that is refused,
\* and polls the status endpoint while the tasks run
StatusRequests ==
    {r \in Requests : r.user_id = "demo-user-001" /\ r.upload.content \in {CsvBadAmount, CsvNoAmount}}

NextStatus ==
    \/ Tick
    \/ \E r \in StatusRequests : upload_csv(r.user_id, r.upload)
    \/ \E id \in JobIds : TaskInsert(id)
    \/ \E id \in JobIds, e \in SinkErrors : TaskInsertRaises(id, e)
    \/ \E id \in JobIds : TaskCompleted(id)
    \/ \E id \in JobIds : TaskFailed(id)
    \/ \E id \in JobIds : get_ingestion_status(id)

SpecStatus == Init /\ [][NextStatus]_vars

\* a task that was added is run after the response has been sent: each of its
\* steps is taken once it can be, whether insert_rows returns or raises
SpecStatusFair ==
    /\ SpecStatus
    /\ \A id \in JobIds :
           /\ WF_vars(TaskInsert(id) \/ \E e \in SinkErrors : TaskInsertRaises(id, e))
           /\ WF_vars(TaskCompleted(id))
           /\ WF_vars(TaskFailed(id))

(***************************************************************************)
(* Direct calls of the static methods of DataProcessor.  calls is the      *)
(* history of the calls made: what was called, on what, at which clock     *)
(* reading, and what it returned.                                          *)
(***************************************************************************)
MaxCalls == 2

\* the rows of the files, by what is particular about each
Rows ==
    [phone |-> <<"2025-10-01", "iPhone 15", "120000">>,
     lunch |-> <<"03/04/2024", "Lunch", "450.50">>,
     repair |-> <<"13/10/2025 09:05", "Repair", "KES 2,500">>,
     no_date |-> <<"soon", "Headphones", "4500">>,
     empty_date |-> <<"", "Charger", "300">>,
     nan |-> <<"2025-10-03", "Cable", "nan">>,
     negative |-> <<"2025-10-02", "Laptop Case", "-5">>,
     no_amount |-> <<"2025-10-02", "Laptop Case", "">>,
     words |-> <<"2025-10-02", "Laptop Case", "twelve">>]

\* the rows every step of parse_csv accepts as they are written
ValidRows == {Rows.phone, Rows.lunch, Rows.repair}

\* the sequences without repetition that list all of S
OrdersOf(S) ==
    {s \in [1..Cardinality(S) -> S] : \A i, j \in 1..Cardinality(S) : s[i] = s[j] => i = j}

\* the row lists of the files: the valid rows in every order, and the valid
\* row Rows.phone before or after one row with a doubtful cell
FileRows ==
    OrdersOf(ValidRows)
    \cup {<<r>> : r \in ValidRows \cup {Rows.no_date, Rows.empty_date, Rows.nan}}
    \cup {<<Rows.phone, r>> : r \in {Rows.nan, Rows.negative, Rows.no_amount, Rows.words, Rows.no_date}}
    \cup {<<Rows.negative, Rows.phone>>}

\* files with a receipt column, with a category and a payment-method column,
\* and with item cells that differ only in white space
DetailFiles ==
    {[headers |-> <<"Receipt No", "Date", "Item", "Amount">>,
      rows |-> << <<"ABC123", "2025-10-01", "Lunch", "450">>,
                  <<"ABC123", "2025-10-02", "Dinner", "900">> >>],
     [headers |-> <<"Receipt No", "Date", "Item", "Amount">>,
      rows |-> << <<"", "2025-10-01", "Lunch", "450">>,
                  <<"", "2025-10-01", "Lunch", "450.00">> >>],
     [headers |-> SheetHeaders,
      rows |-> << <<"2025-10-01", "Lunch", "450">>,
                  <<"2025-10-01", "Lunch ", "450">> >>],
     [headers |-> <<"Date", "Item", "Amount", "Category", "Payment Method">>,
      rows |-> << <<"2025-10-01", "Bluetooth Speaker", "3500", "", "M-Pesa">>,
                  <<"2025-10-02", "  ", "120", "Snacks", "">>,
                  <<"2025-10-03", "Cable", "200">> >>]}

Files == [headers : {SheetHeaders}, rows : FileRows] \cup DetailFiles

\* the date cells parse_date is called on
DateTexts ==
    {"03/04/2024", "13/04/2024", "04/13/2024", "2024-03-04", "2024/03/04", "03-04-2024",
     "03-Apr-2024", "3 Apr 2024", "13/04/2024 10:30", "2024-03-04 10:30:00", "31/04/2024",
     "soon", " 03/04/2024 ", ""}

\* parse_csv of every file at every clock reading, tabulated once
ParsedFiles ==
    [content \in Files, t \in 0..MaxClock |-> parse_csv(content, "csv", t)] @@ <<>>

\* parse_date of every date cell at every clock reading, tabulated once
ParsedDates ==
    [s \in DateTexts, t \in 0..MaxClock |-> parse_date(Some(s), t)] @@ <<>>

\* the header lines and the fields find_column is called on; notes is a
\* field COLUMN_MAPPINGS does not list
HeaderLines ==
    {<<"Timestamp", "Date", "Amount">>, <<"Sale Date", "date", "Amt">>,
     <<"Total Price (KES)", "Order Value", "When">>, <<" DATE ", "Unit price">>,
     <<"Item", "Amount">>}

Fields == {"date", "amount", "item", "notes"}

\* find_column of every header line and field, tabulated once
FoundColumns ==
    [headers \in HeaderLines, field \in Fields |-> find_column(headers, field)] @@ <<>>

\* the item texts categorize_transaction is called on
ItemTexts ==
    {"Bluetooth Speaker", "Laptop Case", "Phone charger", "Lunch delivery", "Screen repair",
     "Activity fee", ""}

\* a history holds the calls of one method
CanCall(fn) == Len(calls) < MaxCalls /\ (IF calls = <<>> THEN TRUE ELSE calls[1].fn = fn)

\* DataProcessor.parse_csv(content)
CallParseCsv(content) ==
    /\ CanCall("parse_csv")
    /\ calls' = Append(calls, [fn |-> "parse_csv", arg |-> content, t |-> clock,
                               result |-> ParsedFiles[content, clock]])
    /\ UNCHANGED <<clock, ingestion_status_cache, transactions, tasks, response, requests>>
    /\ UNCHANGED connector_vars

\* DataProcessor.parse_date(date_str)
CallParseDate(date_str) ==
    /\ CanCall("parse_date")
    /\ calls' = Append(calls, [fn |-> "parse_date", arg |-> date_str, t |-> clock,
                               result |-> ParsedDates[date_str, clock]])
    /\ UNCHANGED <<clock, ingestion_status_cache, transactions, tasks, response, requests>>
    /\ UNCHANGED connector_vars

\* DataProcessor.find_column(headers, field)
CallFindColumn(headers, field) ==
    /\ CanCall("find_column")
    /\ calls' = Append(calls, [fn |-> "find_column", arg |-> <<headers, field>>, t |-> clock,
                               result |-> FoundColumns[headers, field]])
    /\ UNCHANGED <<clock, ingestion_status_cache, transactions, tasks, response, requests>>
    /\ UNCHANGED connector_vars

\* DataProcessor.categorize_transaction(item)
CallCategorize(item) ==
    /\ CanCall("categorize_transaction")
    /\ calls' = Append(calls, [fn |-> "categorize_transaction", arg |-> item, t |-> clock,
                               result |-> categorize_transaction(item, "")])
    /\ UNCHANGED <<clock, ingestion_status_cache, transactions, tasks, response, requests>>
    /\ UNCHANGED connector_vars

NextParse ==
    \/ Tick
    \/ \E content \in Files : CallParseCsv(content)
    \/ \E date_str \in DateTexts : CallParseDate(date_str)
    \/ \E headers \in HeaderLines, field \in Fields : CallFindColumn(headers, field)
    \/ \E item \in ItemTexts : CallCategorize(item)

SpecParse == Init /\ [][NextParse]_vars

(***************************************************************************)
(* The connectors (app/connectors, services/connector_manager.py and       *)
(* api/connectors.py).  A dict is a function from its keys; sheet is what  *)
(* worksheet.get_all_values() returns, the header row first.               *)
(***************************************************************************)
MaxRows == 3

\* dict(zip(keys, values)): a key listed twice keeps its last value
DictZip(keys, values) ==
    [h \in {keys[i] : i \in 1..Min({Len(keys), Len(values)})} |->
        values[Max({i \in 1..Min({Len(keys), Len(values)}) : keys[i] = h})]]

\* `if state`: neither None nor an empty dict
Truthy(state) == state # None /\ DOMAIN state[1] # {}

\* NameError of a module that uses a name it neither defines nor imports
NameError(name) == "name '" \o name \o "' is not defined"

\* the rows a user may add to the worksheet
SheetRows == {<<"2025-10-01", "iPhone 15", "120000">>, <<"2025-10-02", "Laptop Case", "2500">>}

\* row.extend([''] * (len(headers) - len(row)))
PadRow(row, n) == row \o [i \in 1..(IF Len(row) < n THEN n - Len(row) ELSE 0) |-> ""]

\* the statements given as csv_data: header line and rows
MpesaHeaders == <<"Receipt No.", "Completion Time", "Paid In", "Withdrawn">>

\* the statements of the model: receipts all different, the first receipt
\* repeated in a later row, and no receipt column
Statements ==
    [unique |->
        [headers |-> MpesaHeaders,
         rows |-> << <<"QGH7X1", "2025-10-01 09:05:00", "1500", "">>,
                     <<"QGH7X2", "2025-10-01 10:15:00", "", "300">> >>],
     repeated |->
        [headers |-> MpesaHeaders,
         rows |-> << <<"QGH7X1", "2025-10-01 09:05:00", "1500", "">>,
                     <<"QGH7X2", "2025-10-01 10:15:00", "", "300">>,
                     <<"QGH7X1", "2025-10-01 09:05:00", "1500", "">> >>],
     no_receipt |->
        [headers |-> <<"Completion Time", "Paid In", "Withdrawn">>,
         rows |-> << <<"2025-10-01 09:05:00", "1500", "">> >>]]

\* the spreadsheet the service account can open
KnownSpreadsheet == "1abc123def456"

\* the ConnectorConfig bodies of the model (config.dict())
Configs ==
    [source_id : {"sales-sheet-2025"}, type : {"sheets"},
     spreadsheet_id : {Some(KnownSpreadsheet), Some("1zzz")}, csv_data : {None}]
    \cup [source_id : {"mpesa-statement"}, type : {"mpesa"}, spreadsheet_id : {None},
          csv_data : {None, Some(Statements.unique), Some(Statements.repeated),
                      Some(Statements.no_receipt)}]
    \cup [source_id : {"till-1"}, type : {"pos"}, spreadsheet_id : {None}, csv_data : {None}]

SourceIds == {c.source_id : c \in Configs}

\* f"{user_id}:{source_id}"
KeyOf(user_id, source_id) == user_id \o ":" \o source_id

\* BaseConnector.__init__ and SheetsConnector.__init__
SheetsConnector(config) ==
    [type |-> "sheets", spreadsheet_id |-> config.spreadsheet_id, state |-> <<>>]

\* BaseConnector.__init__ and MPesaConnector.__init__
MPesaConnector(config) ==
    [type |-> "mpesa", csv_data |-> config.csv_data, processed_receipts |-> {}, state |-> <<>>]

\* BaseConnector.update_state: dict.update lets the entries of new_state
\* replace those of the state
update_state(connector, new_state) ==
    [connector EXCEPT !.state = new_state @@ connector.state]

\* BaseConnector.get_state
get_state(connector) == connector.state

\* SheetsConnector.test_connection: True, or the NameError of the except
\* block when the spreadsheet cannot be opened
SheetsTestConnection(connector) ==
    IF connector.spreadsheet_id = Some(KnownSpreadsheet)
    THEN [value |-> TRUE, raised |-> None]
    ELSE [value |-> FALSE, raised |-> Some(NameError("logger"))]

\* MPesaConnector.test_connection: a missing csv_data gives no fieldnames,
\* the TypeError of `h in None` is caught and False returned
MPesaTestConnection(connector) ==
    [value |-> /\ connector.csv_data # None
               /\ \A k \in 1..Len(MpesaHeaders) :
                      InList(MpesaHeaders[k], connector.csv_data[1].headers),
     raised |-> None]

\* state.get('last_row', 1) if state else 1
LastRowOf(state) ==
    IF Truthy(state) /\ "last_row" \in DOMAIN state[1] THEN state[1].last_row ELSE 1

\* the list records of SheetsConnector.read for start_row below len(all_values)
SheetRecords(all_values, start_row) ==
    [idx \in 1..(Len(all_values) - start_row) |->
        ("_row_number" :> (start_row + idx - 1))
        @@ DictZip(all_values[1], PadRow(all_values[start_row + idx], Len(all_values[1])))]

\* the connector after `if records: self.update_state(...)`
SheetsStateAfter(connector, start_row, records) ==
    IF records # <<>>
    THEN update_state(connector, [last_row |-> start_row + Len(records) - 1])
    ELSE connector

\* what a call of read leaves: the connector, and either the list returned
\* or the exception raised
ReadOutcome(connector, records, raised) ==
    [connector |-> connector, records |-> records, raised |-> raised]

\* SheetsConnector.read from start_row: both paths end at a logger call, and
\* the module neither defines nor imports logger
SheetsReadFrom(connector, all_values, start_row) ==
    IF Len(all_values) <= start_row
    THEN ReadOutcome(connector, <<>>, Some(NameError("logger")))
    ELSE ReadOutcome(SheetsStateAfter(connector, start_row, SheetRecords(all_values, start_row)),
                     SheetRecords(all_values, start_row), Some(NameError("logger")))

\* SheetsConnector.read(state)
SheetsRead(connector, all_values, state) ==
    SheetsReadFrom(connector, all_values, LastRowOf(state) + 1)

\* list(s) of a set
SetToSeq(S) ==
    CHOOSE s \in [1..Cardinality(S) -> S] : \A i, j \in 1..Cardinality(S) : s[i] = s[j] => i = j

\* state.get('processed_receipts', []) of a state that is not empty
ReceiptsOfState(state) ==
    IF Truthy(state) /\ "processed_receipts" \in DOMAIN state[1]
    THEN {state[1].processed_receipts[i] : i \in 1..Len(state[1].processed_receipts)}
    ELSE {}

\* row.get('Receipt No.', '')
ReceiptNo(row) == IF "Receipt No." \in DOMAIN row THEN row["Receipt No."] ELSE ""

\* the rows csv.DictReader yields
DictRows(csv_data) ==
    IF csv_data = None THEN <<>>
    ELSE [i \in 1..Len(csv_data[1].rows) |-> DictZip(csv_data[1].headers, csv_data[1].rows[i])]

\* the list records of MPesaConnector.read: the rows whose receipt number is
\* not in processed, a set the loop does not add to
MpesaRecords(csv_data, processed) ==
    SelectSeq(DictRows(csv_data), LAMBDA row : ReceiptNo(row) \notin processed)

\* the connector after `if new_receipts: self.update_state(...)`
MpesaStateAfter(connector, processed, records) ==
    IF records # <<>>
    THEN update_state([connector EXCEPT !.processed_receipts = processed],
                      [processed_receipts |->
                          SetToSeq(processed) \o [i \in 1..Len(records) |-> ReceiptNo(records[i])]])
    ELSE [connector EXCEPT !.processed_receipts = processed]

\* MPesaConnector.read once processed_receipts took the receipts of state;
\* it ends at a logger call, and the module neither defines nor imports logger
MpesaReadWith(connector, processed) ==
    ReadOutcome(MpesaStateAfter(connector, processed, MpesaRecords(connector.csv_data, processed)),
                MpesaRecords(connector.csv_data, processed), Some(NameError("logger")))

\* MPesaConnector.read(state)
MpesaRead(connector, state) ==
    MpesaReadWith(connector, connector.processed_receipts \cup ReceiptsOfState(state))

\* connector.read(state=state)
Read(connector, all_values, state) ==
    IF connector.type = "sheets" THEN SheetsRead(connector, all_values, state)
    ELSE MpesaRead(connector, state)

\* dict.get(key)
Get(dict, key) == IF key \in DOMAIN dict THEN Some(dict[key]) ELSE None

\* del dict[key]
Del(dict, key) == [k \in DOMAIN dict \ {key} |-> dict[k]]

\* what ConnectorManager.sync returned or raised
SyncReturned(key, value) == [op |-> "sync", key |-> key, returned |-> Some(value), raised |-> None]

SyncRaised(key, error) == [op |-> "sync", key |-> key, returned |-> None, raised |-> Some(error)]

\* the rest of sync after connector.read: its exception propagates; an empty
\* list returns 'No new data'; otherwise the state is stored and the result
\* dict calls datetime.utcnow(), in a module that does not import datetime
SyncAfterRead(key, read) ==
    /\ connectors' = [connectors EXCEPT ![key] = read.connector]
    /\ IF read.raised # None THEN
           /\ sync_result' = SyncRaised(key, read.raised[1])
           /\ UNCHANGED sync_states
       ELSE IF read.records = <<>> THEN
           /\ sync_result' = SyncReturned(key, [status |-> "completed", rows_synced |-> 0,
                                                message |-> "No new data"])
           /\ UNCHANGED sync_states
       ELSE
           /\ sync_states' = (key :> get_state(read.connector)) @@ sync_states
           /\ sync_result' = SyncRaised(key, NameError("datetime"))

\* ConnectorManager.sync(user_id, source_id), as the background task
\* _perform_sync calls it
sync(user_id, source_id) ==
    /\ IF KeyOf(user_id, source_id) \notin DOMAIN connectors THEN
           /\ sync_result' = SyncRaised(KeyOf(user_id, source_id),
                                        "Connector not found: " \o KeyOf(user_id, source_id))
           /\ UNCHANGED <<connectors, sync_states>>
       ELSE
           SyncAfterRead(KeyOf(user_id, source_id),
                         Read(connectors[KeyOf(user_id, source_id)], sheet,
                              Get(sync_states, KeyOf(user_id, source_id))))
    /\ UNCHANGED <<clock, ingestion_status_cache, transactions, tasks, response, requests>>
    /\ UNCHANGED <<parse_vars, sheet>>

\* the connector register_connector builds, and what test_connection gives
NewConnector(config) ==
    IF config.type = "sheets" THEN SheetsConnector(config) ELSE MPesaConnector(config)

TestConnection(connector) ==
    IF connector.type = "sheets" THEN SheetsTestConnection(connector)
    ELSE MPesaTestConnection(connector)

\* POST /register (register_connector) around ConnectorManager.register_connector
register_connector(user_id, config) ==
    /\ IF config.type \notin {"sheets", "mpesa"} THEN
           /\ response' = [op |-> "register", code |-> 500,
                           body |-> <<"Unsupported connector type: " \o config.type>>]
           /\ UNCHANGED connectors
       ELSE IF TestConnection(NewConnector(config)).raised # None THEN
           /\ response' = [op |-> "register", code |-> 500,
                           body |-> <<TestConnection(NewConnector(config)).raised[1]>>]
           /\ UNCHANGED connectors
       ELSE IF ~TestConnection(NewConnector(config)).value THEN
           /\ response' = [op |-> "register", code |-> 400,
                           body |-> <<"Failed to connect to data source">>]
           /\ UNCHANGED connectors
       ELSE
           /\ connectors' = (KeyOf(user_id, config.source_id) :> NewConnector(config)) @@ connectors
           /\ response' = [op |-> "register", code |-> 200,
                           body |-> <<[source_id |-> config.source_id, status |-> "connected",
                                       message |-> "Connector registered successfully"]>>]
    /\ UNCHANGED <<clock, ingestion_status_cache, transactions, tasks, requests>>
    /\ UNCHANGED <<parse_vars, sheet, sync_states, sync_result>>

\* DELETE /{source_id} (delete_connector): del sync_states[key] raises KeyError
\* for a connector no sync stored a state for
delete_connector(user_id, source_id) ==
    /\ IF KeyOf(user_id, source_id) \notin DOMAIN connectors THEN
           /\ response' = [op |-> "delete", code |-> 404, body |-> <<"Connector not found">>]
           /\ UNCHANGED <<connectors, sync_states>>
       ELSE
           /\ connectors' = Del(connectors, KeyOf(user_id, source_id))
           /\ IF KeyOf(user_id, source_id) \in DOMAIN sync_states THEN
                  /\ sync_states' = Del(sync_states, KeyOf(user_id, source_id))
                  /\ response' = [op |-> "delete", code |-> 200,
                                  body |-> <<[status |-> "deleted", source_id |-> source_id]>>]
              ELSE
                  /\ response' = [op |-> "delete", code |-> 500, body |-> <<"Internal Server Error">>]
                  /\ UNCHANGED sync_states
    /\ UNCHANGED <<clock, ingestion_status_cache, transactions, tasks, requests>>
    /\ UNCHANGED <<parse_vars, sheet, sync_result>>

\* a user adds a row at the end of the worksheet
AppendRow(row) ==
    /\ Len(sheet) < MaxRows + 1
    /\ sheet' = Append(sheet, row)
    /\ UNCHANGED <<clock, ingestion_status_cache, transactions, tasks, response, requests>>
    /\ UNCHANGED <<parse_vars, connectors, sync_states, sync_result>>

\* the user of the connector API
ConnectorUser == "demo-user-001"

NextConnectors ==
    \/ \E row \in SheetRows : AppendRow(row)
    \/ \E config \in Configs : register_connector(ConnectorUser, config)
    \/ \E source_id \in SourceIds : sync(ConnectorUser, source_id)
    \/ \E source_id \in SourceIds : delete_connector(ConnectorUser, source_id)

SpecConnectors == Init /\ [][NextConnectors]_vars

(***************************************************************************)
(* Vocabulary of the properties.                                           *)
(***************************************************************************)
\* the distinct rows of the table
StoredRows == BagToSet(transactions)

\* the rows of the table with the tenant and the id of r, counted with
\* their multiplicity
CopiesOfKey(r) ==
    BagCardinality([q \in {x \in StoredRows : x.user_id = r.user_id /\ x.id = r.id}
                        |-> CopiesIn(q, transactions)])

\* the status of a job as a client sees it, "absent" for an id not issued
StatusOf(id) ==
    IF id \in DOMAIN ingestion_status_cache THEN ingestion_status_cache[id].status ELSE "absent"

\* job j ingests again what job i ingested: same tenant, same upload, and
\* i had completed when j was submitted
Reingests(j, i) ==
    /\ i \in requests[j].completed_before
    /\ requests[i].user_id = requests[j].user_id
    /\ requests[i].upload = requests[j].upload

\* the rows of job id have been appended to the table
Committed(id) ==
    \/ (id \in DOMAIN tasks /\ tasks[id].pc = "inserted")
    \/ StatusOf(id) = "completed"

\* the non-empty receipt numbers among the accepted rows of job id
ReceiptsOf(id) ==
    {requests[id].rows[k].receipt_no[1] :
        k \in {n \in 1..Len(requests[id].rows) :
                  requests[id].rows[n].receipt_no \notin {None, Some("")}}}

\* jobs i and j overlap in time: neither had completed when the other was
\* submitted
Concurrent(i, j) ==
    i # j /\ i \notin requests[j].completed_before /\ j \notin requests[i].completed_before

(***************************************************************************)
(* C1.  The table never holds two rows with the same tenant and the same   *)
(* record id, within one batch or across jobs.                             *)
(***************************************************************************)
C1_NoDoubleCommit == \A r \in StoredRows : CopiesOfKey(r) = 1

(***************************************************************************)
(* C2.  Idempotent re-ingestion: a job that ingests again, for the same    *)
(* tenant, a file whose earlier job had completed appends nothing to the   *)
(* table and reports zero processed rows.                                  *)
(***************************************************************************)
C2_IdempotentReingestion ==
    [][\A j \in DOMAIN requests :
          (\E i \in DOMAIN requests : Reingests(j, i)) =>
              /\ (tasks[j].pc = "added" /\ tasks'[j].pc = "inserted")
                     => transactions' = transactions
              /\ (StatusOf(j) # "completed" /\ StatusOf(j)' = "completed")
                     => ingestion_status_cache'[j].rows_processed = 0]_vars

(***************************************************************************)
(* C3.  Two jobs of one tenant that overlap in time and both carry a row   *)
(* with the same receipt number never both commit it.                      *)
(***************************************************************************)
C3_NoConcurrentDoubleWin ==
    \A i, j \in DOMAIN requests :
        (/\ Concurrent(i, j)
         /\ requests[i].user_id = requests[j].user_id
         /\ ReceiptsOf(i) \cap ReceiptsOf(j) # {})
        => ~(Committed(i) /\ Committed(j))

(***************************************************************************)
(* C4.  Within one file, of the rows carrying the same non-empty receipt   *)
(* number only the first is accepted: no two accepted rows of a job share  *)
(* a receipt number.                                                       *)
(***************************************************************************)
C4_FirstReceiptWins ==
    \A id \in DOMAIN requests :
        \A k1, k2 \in 1..Len(requests[id].rows) :
            (/\ k1 < k2
             /\ requests[id].rows[k1].receipt_no \notin {None, Some("")})
            => requests[id].rows[k1].receipt_no # requests[id].rows[k2].receipt_no

(***************************************************************************)
(* C5.  Partial-failure isolation: a job whose file has N rows of which k  *)
(* are malformed (amount unparseable or not positive, date unparseable),   *)
(* 0 < k < N, completes with N - k rows accepted and k rows rejected.      *)
(***************************************************************************)
\* a date text that no format of parse_date parses
DateUnparseable(date_str) ==
    \/ date_str \in {None, Some("")}
    \/ \A k \in 1..Len(formats) : strptime(Strip(date_str[1]), formats[k]) = None

\* the row is malformed in the sense of the specification
Malformed(headers, row) ==
    \/ FloatLeqZero(RowAmount(headers, ColumnsOf(headers), row))
    \/ /\ ColumnsOf(headers).date_col # None
       /\ DateUnparseable(CellOf(headers, row, ColumnsOf(headers).date_col, Some("")))

\* the number of malformed rows of each content, tabulated once
MalformedCount ==
    [content \in Contents |->
        Cardinality({k \in 1..Len(content.rows) :
                        Malformed(content.headers, content.rows[k])})] @@ <<>>

C5_PartialFailureIsolation ==
    \A id \in DOMAIN requests :
        LET content == requests[id].upload.content IN
        (/\ StatusOf(id) = "completed"
         /\ 0 < MalformedCount[content]
         /\ MalformedCount[content] < Len(content.rows))
        => /\ ingestion_status_cache[id].rows_processed
                  = Len(content.rows) - MalformedCount[content]
           /\ requests[id].skipped = MalformedCount[content]

(***************************************************************************)
(* C6.  The states of a job visible in the status store.                   *)
(***************************************************************************)
\* every change of the status of a job is one of the pairs in allowed
StatusChangesWithin(allowed) ==
    \A id \in JobIds : StatusOf(id)' # StatusOf(id) => <<StatusOf(id), StatusOf(id)'>> \in allowed

\* C6 as stated: the record is created queued, and the only transitions are
\* queued -> processing -> completed | failed.
C6_QueuedFirst ==
    [][StatusChangesWithin({<<"absent", "queued">>, <<"queued", "processing">>,
                            <<"processing", "completed">>, <<"processing", "failed">>})]_vars

\* C6 as amended: the record is created in state processing at submission,
\* before the task has run; the only transitions are processing -> completed
\* and processing -> failed, and a terminal record never changes again.
C6_ProcessingThenTerminal ==
    [][/\ StatusChangesWithin({<<"absent", "processing">>, <<"processing", "completed">>,
                               <<"processing", "failed">>})
       /\ \A id \in JobIds :
             /\ (StatusOf(id) = "absent" /\ StatusOf(id)' # "absent") => tasks'[id].pc = "added"
             /\ StatusOf(id) \in {"completed", "failed"}
                    => ingestion_status_cache'[id] = ingestion_status_cache[id]]_vars

C6_Witness ==
    \E i, j \in DOMAIN ingestion_status_cache :
        StatusOf(i) = "completed" /\ StatusOf(j) = "failed"

(***************************************************************************)
(* C7.  A job is reported completed only after all of its accepted records *)
(* have been written: whenever the status is completed, the table holds    *)
(* the normalized rows of the job.                                         *)
(***************************************************************************)
C7_CompletedOnlyAfterWrite ==
    \A id \in DOMAIN requests :
        StatusOf(id) = "completed" =>
            \E t \in 0..MaxClock :
                SeqToBag(normalize_for_bigquery(requests[id].rows, requests[id].user_id, t))
                    \sqsubseteq transactions

C7_Witness ==
    \E id \in DOMAIN requests : StatusOf(id) = "completed" /\ Len(requests[id].rows) = 2

(***************************************************************************)
(* C8.  When insert_rows raises, the next status of the job is failed,     *)
(* with zero rows processed and the error in the message; a failed status  *)
(* makes no partial-success claim and never becomes completed.             *)
(***************************************************************************)
C8_SinkFailureFailsJob ==
    /\ [](\A id \in DOMAIN ingestion_status_cache :
            /\ (tasks[id].pc = "raised" => StatusOf(id) = "processing")
            /\ (StatusOf(id) = "failed" =>
                   /\ ingestion_status_cache[id].rows_processed = 0
                   /\ \E e \in SinkErrors : ingestion_status_cache[id].message = "Error: " \o e))
    /\ [][\A id \in DOMAIN ingestion_status_cache :
            /\ (tasks[id].pc = "raised" /\ StatusOf(id)' # StatusOf(id))
                   => StatusOf(id)' = "failed"
            /\ StatusOf(id) = "failed" => StatusOf(id)' = "failed"]_vars

C8_Witness ==
    \E id \in DOMAIN ingestion_status_cache :
        StatusOf(id) = "failed" /\ ingestion_status_cache[id].rows_uploaded = 2

(***************************************************************************)
(* C9.  An upload whose headers do not resolve the amount field fails in   *)
(* the request itself with the error of the required-column check, and     *)
(* creates no job: no id is issued, the status store and the table are     *)
(* unchanged and no task is added.                                         *)
(***************************************************************************)
\* the fields that resolve to a header of each content, tabulated once
Resolved ==
    [content \in Contents |->
        {field \in DOMAIN COLUMN_MAPPINGS : find_column(content.headers, field) # None}] @@ <<>>

\* the response carries the error of the required-column check
IsPreconditionError(resp) ==
    /\ resp.op = "upload"
    /\ resp.code = 500
    /\ Contains("CSV must contain a", resp.body[1])

C9_NoAmountNoJob ==
    [][\A r \in Requests :
          (/\ EndsWith(r.upload.filename, ".csv")
           /\ "amount" \notin Resolved[r.upload.content]
           /\ upload_csv(r.user_id, r.upload))
          => /\ IsPreconditionError(response')
             /\ UNCHANGED <<ingestion_status_cache, transactions, tasks, requests>>]_vars

C9_Witness ==
    /\ IsPreconditionError(response)
    /\ Contains("amount column", response.body[1])
    /\ DOMAIN ingestion_status_cache = {}

(***************************************************************************)
(* C10.  The required-column check passes exactly when the amount field    *)
(* resolves and the date field or the receipt field resolves; it is        *)
(* decided before any row is looked at; and in a file with an amount and a *)
(* receipt column but no date column every row with a receipt number and a *)
(* positive amount is accepted.                                            *)
(***************************************************************************)
\* the number of rows of each content that carry a receipt number and a
\* positive amount, tabulated once
ReceiptRowCount ==
    [content \in Contents |->
        Cardinality({k \in 1..Len(content.rows) :
            /\ CellOf(content.headers, content.rows[k], ColumnsOf(content.headers).receipt_col,
                      Some("")) \notin {None, Some("")}
            /\ ~FloatLeqZero(RowAmount(content.headers, ColumnsOf(content.headers),
                                       content.rows[k]))})] @@ <<>>

C10_MandatoryFieldCheck ==
    [][\A r \in Requests :
          (EndsWith(r.upload.filename, ".csv") /\ upload_csv(r.user_id, r.upload))
          => LET resolved == Resolved[r.upload.content] IN
             /\ ~IsPreconditionError(response')
                    <=> ("amount" \in resolved /\ ({"date", "receipt_no"} \cap resolved # {}))
             /\ ("amount" \in resolved /\ "receipt_no" \in resolved /\ "date" \notin resolved
                 /\ ReceiptRowCount[r.upload.content] > 0)
                    => /\ response'.code = 200
                       /\ Len(requests'[response'.body[1]].rows)
                              = ReceiptRowCount[r.upload.content]]_vars

C10_Witness ==
    \E id \in DOMAIN requests :
        /\ "date" \notin Resolved[requests[id].upload.content]
        /\ "receipt_no" \in Resolved[requests[id].upload.content]
        /\ Len(requests[id].rows) = 2
        /\ response.code = 200

(***************************************************************************)
(* C11.  Every row of the file is accounted for in the status of a         *)
(* completed job: the rows submitted are all the data rows of the file,    *)
(* and they are the rows accepted plus the rows rejected.                  *)
(***************************************************************************)
\* the rejected rows a status record reports: the cache entries carry no
\* rows_skipped, and IngestionStatus leaves the field unset
RowsRejectedOf(status) == IF "rows_skipped" \in DOMAIN status THEN status.rows_skipped ELSE 0

C11_RowsAccounted ==
    \A id \in DOMAIN requests :
        StatusOf(id) = "completed" =>
            /\ ingestion_status_cache[id].rows_uploaded = Len(requests[id].upload.content.rows)
            /\ ingestion_status_cache[id].rows_uploaded
                   = ingestion_status_cache[id].rows_processed
                     + RowsRejectedOf(ingestion_status_cache[id])

(***************************************************************************)
(* C12.  Uploads that pass the required-column check.                      *)
(***************************************************************************)
\* the number of rows of each content the row loop keeps (amount > 0),
\* tabulated once
AcceptedCount ==
    [content \in Contents |->
        Cardinality({k \in 1..Len(content.rows) :
            ~FloatLeqZero(RowAmount(content.headers, ColumnsOf(content.headers),
                                    content.rows[k]))})] @@ <<>>

\* the upload r passes the file-name check and the required-column check
PassesColumnCheck(r) ==
    /\ EndsWith(r.upload.filename, ".csv")
    /\ "amount" \in Resolved[r.upload.content]
    /\ {"date", "receipt_no"} \cap Resolved[r.upload.content] # {}

\* the step answers 200 and creates the job the response names, with n rows
CreatesJob(n) ==
    /\ response'.code = 200
    /\ response'.body[1] \in DOMAIN ingestion_status_cache' \ DOMAIN ingestion_status_cache
    /\ ingestion_status_cache'[response'.body[1]].rows_uploaded = n
    /\ tasks'[response'.body[1]].pc = "added"

ParseCsvReturns == {k \in DOMAIN calls : calls[k].fn = "parse_csv" /\ calls[k].result.ok}

\* x > 0 for a float x given by its repr (nan compares False)
FloatGtZero(x) == x # "nan" /\ Char(x, 1) # "-" /\ x # "0.0"

\* the amount cells of the files that are missing, not a number, or not above zero
NotPositiveCells == {"", "twelve", "nan", "-5"}

\* the rows of a file whose amount cell is a number above zero
PositiveRows(content) ==
    {i \in DOMAIN content.rows :
        /\ RowGet(content.headers, content.rows[i], "Amount") # None
        /\ RowGet(content.headers, content.rows[i], "Amount")[1] \notin NotPositiveCells}

\* C13: every record parse_csv accepts has amount > 0, and a row whose amount
\* is missing, unparseable, zero or negative is not among the accepted records.
C13_AmountPositive ==
    \A k \in ParseCsvReturns :
        /\ \A i \in DOMAIN calls[k].result.transactions :
               FloatGtZero(calls[k].result.transactions[i].amount)
        /\ Len(calls[k].result.transactions) = Cardinality(PositiveRows(calls[k].arg))

\* C14: an empty or unparseable date is never replaced by the current time:
\* parse_date does not answer with the clock reading, and no record parse_csv
\* accepts carries the time of the call as its timestamp.
C14_NoFabricatedTimestamp ==
    \A k \in DOMAIN calls :
        /\ calls[k].fn = "parse_date" => calls[k].result # now(calls[k].t)
        /\ k \in ParseCsvReturns =>
               \A i \in DOMAIN calls[k].result.transactions :
                   calls[k].result.transactions[i].timestamp # isoformat(now(calls[k].t))

\* the ids of the records a call of parse_csv returned, in the order of the rows
IdsOf(k) == [i \in DOMAIN calls[k].result.transactions |-> calls[k].result.transactions[i].id]

\* C15: the record id is deterministic: two runs of parse_csv on the same
\* file, at whatever times, give every accepted row the same id.
C15_DeterministicId ==
    \A k, l \in ParseCsvReturns : calls[k].arg = calls[l].arg => IdsOf(k) = IdsOf(l)

\* the calls of parse_csv on a file whose rows are all valid
ValidFileCalls ==
    {k \in DOMAIN calls :
        calls[k].fn = "parse_csv" /\ \A i \in DOMAIN calls[k].arg.rows : calls[k].arg.rows[i] \in ValidRows}

\* two files with the same header line and the same rows, in whatever order
SameRows(a, b) == a.headers = b.headers /\ SeqToBag(a.rows) = SeqToBag(b.rows)

\* the set of records a call of parse_csv accepted
AcceptedSet(k) == {calls[k].result.transactions[i] : i \in DOMAIN calls[k].result.transactions}

\* C16: for files whose rows are all valid, the order of the rows does not
\* change the set of accepted records: two files with the same rows in
\* different orders are both parsed, into the same set of records.
C16_OrderIndependence ==
    \A k, l \in ValidFileCalls :
        SameRows(calls[k].arg, calls[l].arg) =>
            /\ calls[k].result.ok /\ calls[l].result.ok
            /\ AcceptedSet(k) = AcceptedSet(l)

\* the three valid rows were parsed in two different orders, every row accepted
C16_Witness ==
    \E k, l \in ValidFileCalls :
        /\ SameRows(calls[k].arg, calls[l].arg)
        /\ calls[k].arg.rows[1] # calls[l].arg.rows[1]
        /\ calls[k].result.ok /\ calls[l].result.ok
        /\ Cardinality(AcceptedSet(k)) = 3

\* the calls of parse_date
ParseDateCalls == {k \in DOMAIN calls : calls[k].fn = "parse_date"}

\* the positions in formats of the patterns that parse the text s
PatternsThatParse(s) == {i \in DOMAIN formats : strptime(s, formats[i]) # None}

\* the position of a pattern in formats
PositionOf(fmt) == CHOOSE i \in DOMAIN formats : formats[i] = fmt

MonthFirst == PositionOf("%m/%d/%Y")

DayFirst == PositionOf("%d/%m/%Y")

\* for every date cell: the patterns that parse it once stripped, what the
\* first of them gives, and the first and second number of a text that the
\* day-first pattern parses
FirstPattern ==
    [s \in DateTexts |->
        [hits |-> PatternsThatParse(Strip(s)),
         date |-> IF PatternsThatParse(Strip(s)) = {} THEN None
                  ELSE strptime(Strip(s), formats[Min(PatternsThatParse(Strip(s)))]),
         first |-> IF DayFirst \in PatternsThatParse(Strip(s)) THEN NatOf(Char(Strip(s), 1) \o Char(Strip(s), 2))
                   ELSE 0,
         second |-> IF DayFirst \in PatternsThatParse(Strip(s)) THEN NatOf(Char(Strip(s), 4) \o Char(Strip(s), 5))
                    ELSE 0]] @@ <<>>

\* C17: parse_date returns what the first pattern of the list that parses the
\* text gives; the month-first pattern comes before the day-first one, so a
\* text both parse (03/04/2024) is read as month 3, day 4; and a text some
\* pattern parses gives the same date at every call.
C17_FirstPatternWins ==
    \A k \in ParseDateCalls :
        FirstPattern[calls[k].arg].hits # {} =>
            /\ calls[k].result = FirstPattern[calls[k].arg].date[1]
            /\ {MonthFirst, DayFirst} \subseteq FirstPattern[calls[k].arg].hits =>
                   /\ MonthFirst < DayFirst
                   /\ calls[k].result.month = FirstPattern[calls[k].arg].first
                   /\ calls[k].result.day = FirstPattern[calls[k].arg].second
            /\ \A l \in ParseDateCalls :
                   calls[l].arg = calls[k].arg => calls[l].result = calls[k].result

\* 03/04/2024 was parsed at two clock readings, both times as the 4th of March
C17_Witness ==
    \E k, l \in ParseDateCalls :
        /\ calls[k].arg = "03/04/2024" /\ calls[l].arg = "03/04/2024"
        /\ calls[k].t # calls[l].t
        /\ calls[k].result = MkDatetime(2024, 3, 4, 0, 0, 0, 0)
        /\ calls[l].result = MkDatetime(2024, 3, 4, 0, 0, 0, 0)

\* the ids a successful upload returned
IssuedIds == DOMAIN requests

\* C18: a status query for an id no successful upload returned answers 404
\* "Ingestion not found"; for an id that was returned it answers with the
\* status record of that job; and it leaves the status records, the jobs and
\* the table as they are.
C18_StatusQuery ==
    [][\A id \in JobIds :
           get_ingestion_status(id) =>
               /\ IF id \in IssuedIds
                  THEN /\ response'.code = 200
                       /\ response'.body = <<ingestion_status_cache[id]>>
                       /\ response'.body[1].ingestion_id = id
                  ELSE /\ response'.code = 404
                       /\ response'.body = <<"Ingestion not found">>
               /\ UNCHANGED <<ingestion_status_cache, transactions, tasks, requests>>]_vars

\* a query was answered 404 while a job exists, so the id asked is not that job's
C18_Witness ==
    /\ response.op = "status" /\ response.code = 404
    /\ IssuedIds # {}

(***************************************************************************)
(* Properties of the connectors.                                           *)
(***************************************************************************)
\* the key of the user's connector for a source, registered with the given type
Registered(source_id, type) ==
    /\ KeyOf(ConnectorUser, source_id) \in DOMAIN connectors
    /\ connectors[KeyOf(ConnectorUser, source_id)].type = type

\* the last row handed out so far for a key: the stored last_row, the header
\* row when nothing is stored
HandedOut(key) == LastRowOf(Get(sync_states, key))

\* C19: a sync of a registered sheet connector returns exactly the rows after
\* the stored last_row (all data rows when nothing is stored) and stores the
\* number of the last row of the sheet as last_row, so that every data row is
\* returned once, none skipped and none twice.
C19_EveryRowOnce ==
    [][\A source_id \in SourceIds :
           (Registered(source_id, "sheets") /\ sync(ConnectorUser, source_id)) =>
               /\ sync_result'.raised = None
               /\ sync_result'.returned[1].rows_synced
                      = Len(sheet) - HandedOut(KeyOf(ConnectorUser, source_id))
               /\ HandedOut(KeyOf(ConnectorUser, source_id))' = Len(sheet)]_vars

\* the receipt numbers of a statement, and those among them not yet stored
ReceiptsIn(csv_data) == {ReceiptNo(DictRows(csv_data)[i]) : i \in 1..Len(DictRows(csv_data))}

NewReceipts(key) ==
    ReceiptsIn(connectors[key].csv_data) \ ReceiptsOfState(Get(sync_states, key))

\* C20: a sync of a registered M-Pesa connector returns each receipt number
\* not returned before exactly once, also when it is repeated in the
\* statement, and stores the receipts it returned, so that the next sync of
\* the same statement reports rows_synced = 0.
C20_ReceiptsOnce ==
    [][\A source_id \in SourceIds :
           (Registered(source_id, "mpesa") /\ sync(ConnectorUser, source_id)) =>
               /\ sync_result'.raised = None
               /\ sync_result'.returned[1].rows_synced
                      = Cardinality(NewReceipts(KeyOf(ConnectorUser, source_id)))
               /\ NewReceipts(KeyOf(ConnectorUser, source_id))' = {}]_vars

\* the records the calls of parse_csv returned
AcceptedRecords == UNION {AcceptedSet(k) : k \in ParseCsvReturns}

\* the record carries an external reference: a receipt number that is not empty
HasReference(r) == r.receipt_no # None /\ r.receipt_no # Some("")

\* C21: two records with the same non-empty receipt number have the same id
\* whatever their date, amount and item; two records without a receipt number
\* that agree on timestamp, amount and item have the same id.
C21_KeyFunction ==
    \A a, b \in AcceptedRecords :
        /\ (HasReference(a) /\ HasReference(b) /\ a.receipt_no = b.receipt_no) => a.id = b.id
        /\ (~HasReference(a) /\ ~HasReference(b) /\ a.timestamp = b.timestamp
            /\ a.amount = b.amount /\ a.item = b.item) => a.id = b.id

\* the calls of find_column
FindColumnCalls == {k \in DOMAIN calls : calls[k].fn = "find_column"}

\* the aliases of the field that are headers of the line, by position in the
\* alias list, and the headers that are aliases or contain one, by position
\* in the header line
AliasesPresent(headers, field) ==
    {k \in 1..Len(possible_names(field)) : InList(possible_names(field)[k], headers)}

ExactHeaders(headers, field) ==
    {i \in 1..Len(headers) : InList(headers[i], possible_names(field))}

SubstringHeaders(headers, field) ==
    {i \in 1..Len(headers) :
        \E k \in 1..Len(possible_names(field)) :
            Contains(Lower(possible_names(field)[k]), Lower(headers[i]))}

\* C22: when headers of the line are exact matches of aliases of the field,
\* find_column returns the header equal to the earliest such alias of the list.
C22_AliasOrderBreaksTies ==
    \A k \in FindColumnCalls :
        AliasesPresent(calls[k].arg[1], calls[k].arg[2]) # {} =>
            calls[k].result
                = Some(possible_names(calls[k].arg[2])
                           [Min(AliasesPresent(calls[k].arg[1], calls[k].arg[2]))])

\* for every line and field of the calls: whether a header is an alias, and
\* the first header that contains one, worked out once
Matches ==
    [headers \in HeaderLines, field \in Fields |->
        [exact |-> ExactHeaders(headers, field) # {},
         substring |-> IF SubstringHeaders(headers, field) # {}
                       THEN Some(headers[Min(SubstringHeaders(headers, field))])
                       ELSE None]] @@ <<>>

\* C23: an exact match anywhere in the line wins over a substring match;
\* without an exact match the result is the first header of the line that
\* contains an alias, case ignored; without either the field is unresolved.
C23_ExactBeforeSubstring ==
    \A k \in FindColumnCalls :
        IF Matches[calls[k].arg[1], calls[k].arg[2]].exact
        THEN /\ calls[k].result # None
             /\ InList(calls[k].result[1], possible_names(calls[k].arg[2]))
        ELSE calls[k].result = Matches[calls[k].arg[1], calls[k].arg[2]].substring

\* a line whose first header only contains an alias of date and whose second
\* header is one: the second was returned; and an unresolved amount
C23_Witness ==
    \E k, l \in FindColumnCalls :
        /\ calls[k].arg = << <<"Sale Date", "date", "Amt">>, "date" >>
        /\ calls[k].result = Some("date")
        /\ calls[l].arg = << <<"Sale Date", "date", "Amt">>, "amount" >>
        /\ calls[l].result = None

\* the calls of categorize_transaction
CategorizeCalls == {k \in DOMAIN calls : calls[k].fn = "categorize_transaction"}

\* the keyword sets in the order they are scanned, each with its label
CategoryTable ==
    << <<ElectronicsWords, "Electronics">>, <<AccessoriesWords, "Accessories">>,
       <<FoodWords, "Food & Beverage">>, <<ServicesWords, "Services">> >>

\* the entries of the table with a keyword occurring in the item, case ignored
MatchingEntries(item) ==
    {e \in 1..Len(CategoryTable) :
        \E w \in 1..Len(CategoryTable[e][1]) : Contains(CategoryTable[e][1][w], Lower(item))}

\* the label of the first entry of the table that matches, worked out once
\* for every item text of the calls
FirstLabel ==
    [item \in ItemTexts |->
        IF MatchingEntries(item) = {} THEN "Other"
        ELSE CategoryTable[Min(MatchingEntries(item))][2]] @@ <<>>

\* C24: the categorizer returns the label of the first keyword set of the
\* table with a keyword occurring in the text and "Other" when there is none,
\* and the same text gets the same label at every call.
C24_FirstKeywordSetWins ==
    \A k \in CategorizeCalls :
        /\ calls[k].result = FirstLabel[calls[k].arg]
        /\ \A l \in CategorizeCalls :
               calls[l].arg = calls[k].arg => calls[l].result = calls[k].result

\* "Bluetooth Speaker", with no keyword, was labelled Other and "Laptop Case",
\* with keywords of two sets, got the label of the earlier set
C24_Witness ==
    \E k, l \in CategorizeCalls :
        /\ calls[k].arg = "Bluetooth Speaker" /\ calls[k].result = "Other"
        /\ calls[l].arg = "Laptop Case" /\ calls[l].result = "Electronics"
        /\ Cardinality(MatchingEntries(calls[l].arg)) = 2

\* C25: every accepted record has a category, an item name and a payment
\* method, none of them missing or empty.
C25_DescriptiveFieldsFilled ==
    \A r \in AcceptedRecords :
        /\ r.category # ""
        /\ r.item # ""
        /\ r.payment_method # None
        /\ r.payment_method # Some("")

\* the rows the stored status of the job counts as dealt with
RowsCounted(status) == status.rows_processed

\* C26: the counters of a job with more than one row advance while it is
\* processing: the job does not go in one step from a status that counts no
\* row to a status that counts them all, so that a status with
\* 0 < rows counted < rows submitted lies between the two.
C26_PartialProgressObservable ==
    [][\A id \in DOMAIN ingestion_status_cache :
           (/\ ingestion_status_cache[id].rows_uploaded > 1
            /\ RowsCounted(ingestion_status_cache[id]) = 0)
           => RowsCounted(ingestion_status_cache'[id]) < ingestion_status_cache'[id].rows_uploaded]_vars

\* the counters of a stored status
CountersOf(status) == <<status.rows_uploaded, status.rows_processed>>

\* C27: the counters of a job never decrease, and a step that leaves the
\* job in, or moves it into, queued, completed or failed changes no counter.
C27_CountersChangeWhileProcessing ==
    [][\A id \in DOMAIN ingestion_status_cache :
           /\ ingestion_status_cache'[id].rows_uploaded >= ingestion_status_cache[id].rows_uploaded
           /\ ingestion_status_cache'[id].rows_processed >= ingestion_status_cache[id].rows_processed
           /\ ingestion_status_cache'[id].status \in {"queued", "completed", "failed"}
              => CountersOf(ingestion_status_cache'[id]) = CountersOf(ingestion_status_cache[id])]_vars

\* the number of records of the largest job the uploads give rise to
LargestJob ==
    Max({Len(ParsedUploads[up, t].transactions) :
            up \in {u \in Uploads : ParsedUploads[u, 0].ok}, t \in 0..MaxClock})

\* the chunk bounds that would split the largest job into several writes
ChunkBounds == 1..(LargestJob - 1)

\* C28: there is a chunk bound, smaller than the largest job, that no write
\* call to the sink exceeds; and the step that ends a job failed after a write
\* raised takes nothing back from the table.
C28_ChunkedWrites ==
    [][\A id \in JobIds :
           /\ TaskInsert(id) =>
                  \E bound \in ChunkBounds : Len(tasks'[id].normalized_rows) <= bound
           /\ TaskFailed(id) =>
                  /\ ingestion_status_cache'[id].status = "failed"
                  /\ transactions' = transactions]_vars

\* the job has ended
Terminal(id) ==
    /\ id \in DOMAIN ingestion_status_cache
    /\ ingestion_status_cache[id].status \in {"completed", "failed"}

\* C29: every job whose status record was created ends completed or failed,
\* whether insert_rows returns or raises, provided its task is run.
C29_EveryJobEnds ==
    \A id \in JobIds : (id \in DOMAIN ingestion_status_cache) ~> Terminal(id)

\* one job ended completed and another ended failed after the sink raised
C29_Witness ==
    \E a, b \in DOMAIN ingestion_status_cache :
        /\ ingestion_status_cache[a].status = "completed"
        /\ ingestion_status_cache[b].status = "failed"
        /\ tasks[a].pc = "done" /\ tasks[b].pc = "done"

\* C30: deleting a registered connector answers "deleted" and leaves neither
\* the connector nor a sync state registered for it, whether or not a sync
\* stored a state; deleting a source that is not registered answers 404 and
\* changes neither map.
C30_DeleteConnector ==
    [][\A source_id \in SourceIds :
           delete_connector(ConnectorUser, source_id) =>
               IF KeyOf(ConnectorUser, source_id) \in DOMAIN connectors
               THEN /\ response'.code = 200
                    /\ response'.body = <<[status |-> "deleted", source_id |-> source_id]>>
                    /\ KeyOf(ConnectorUser, source_id) \notin DOMAIN connectors'
                    /\ KeyOf(ConnectorUser, source_id) \notin DOMAIN sync_states'
               ELSE /\ response'.code = 404
                    /\ UNCHANGED <<connectors, sync_states>>]_vars

====
